---- MODULE Spec2Model ----
(***************************************************************************)
(* Subscription / payment reconciliation of lingeniare/vega.               *)
(*                                                                         *)
(* The model covers the Robokassa webhook route (POST with its two         *)
(* subscription helpers), the Dodo Payments and Polar onPayload handlers   *)
(* of lib/auth.ts, the entitlement resolvers of lib/subscription.ts and    *)
(* lib/user-data-server.ts and the caches they read and write.             *)
(*                                                                         *)
(* Time is counted in minutes since 2025-01-01T00:00.  Every `await` of    *)
(* the Robokassa route on the database is a separate step, so that two     *)
(* requests interleave exactly where the event loop lets them.             *)
(***************************************************************************)
EXTENDS Integers, Sequences, FiniteSets, TLC

VARIABLES
  clock,               \* Date.now(), minutes
  ticks,               \* number of clock advances so far
  nextId,              \* number of generateId() calls so far
  payment,             \* rows of table `payment`
  subscription,        \* rows of table `subscription`
  pc,                  \* position of each Robokassa request
  req,                 \* webhookData of each Robokassa request
  paymentId,           \* const paymentId of each Robokassa request
  existingSubscriptions, \* rows read by handleRecurringSubscription
  last,                \* outcome of the notification that finished last
  userDataCache,       \* Map of user-data-server.ts
  subscriptionCache,   \* subscriptionCache of performance-cache
  proUserStatusCache,  \* pro-status cache of performance-cache
  reading              \* rows selected by each read that awaits its result

vars == <<clock, ticks, nextId, payment, subscription, pc, req, paymentId,
          existingSubscriptions, last, userDataCache, subscriptionCache,
          proUserStatusCache, reading>>

dbVars == <<payment, subscription>>
cacheVars == <<userDataCache, subscriptionCache, proUserStatusCache>>
rkVars == <<pc, req, paymentId, existingSubscriptions>>

----------------------------------------------------------------------------
(* Bounds *)

MaxTicks == 1
MaxIds == 4

\* concurrently served Robokassa requests
Slots == {1, 2}

----------------------------------------------------------------------------
(* Values *)

Null == "null"
NullTime == 0 - 1

\* a SignatureValue that is absent from the form
NullSig == <<>>

\* rows of table `user`: id and email
Users == {"u1", "u2"}
EmailOf(u) == IF u = "u1" THEN "u1@x" ELSE IF u = "u2" THEN "u2@x" ELSE Null

GenIds == <<"g1", "g2", "g3", "g4", "g5", "g6", "g7", "g8", "g9", "g10",
            "g11", "g12", "g13", "g14", "g15", "g16">>

\* the n-th value returned by generateId()
generateId(n) == GenIds[n]

MinutesPerDay == 1440
DaysPerYear == 365

\* first day of each month within a (non-leap) year, 0-based
MonthStart == <<0, 31, 59, 90, 120, 151, 181, 212, 243, 273, 304, 334>>

MonthOf(doy) == CHOOSE m \in 1..12 :
                  /\ MonthStart[m] <= doy
                  /\ (m = 12 \/ doy < MonthStart[m + 1])

\* d.setMonth(d.getMonth() + 1): same day of the next month, a day past the
\* end of that month spilling into the month after it
setMonthPlus1(t) ==
  LET day == t \div MinutesPerDay
      min == t % MinutesPerDay
      y   == day \div DaysPerYear
      doy == day % DaysPerYear
      m   == MonthOf(doy)
      dom == doy - MonthStart[m]
      ny  == IF m = 12 THEN y + 1 ELSE y
      nm  == IF m = 12 THEN 1 ELSE m + 1
  IN  ((ny * DaysPerYear) + MonthStart[nm] + dom) * MinutesPerDay + min

\* d.setFullYear(d.getFullYear() + 1)
setFullYearPlus1(t) == t + (DaysPerYear * MinutesPerDay)

----------------------------------------------------------------------------
(* RobokassaClient *)

password1 == "pw1"
password2 == "pw2"
merchantLogin == "vega_shop"

HexDigits == <<"0", "1", "2", "3", "4", "5", "6", "7", "8", "9",
               "a", "b", "c", "d", "e", "f">>

UpperOf(c) == CASE c = "a" -> "A" [] c = "b" -> "B" [] c = "c" -> "C"
                [] c = "d" -> "D" [] c = "e" -> "E" [] c = "f" -> "F"
                [] OTHER -> c

\* String.prototype.toUpperCase on a hex string
toUpperCase(s) == [i \in 1..Len(s) |-> UpperOf(s[i])]

OutSums == {"99.00", "990.00"}
InvIds == {"inv1", "inv2"}

OutSumDigit(o) == IF o = "99.00" THEN 1 ELSE 2
InvIdDigit(i) == IF i = "inv1" THEN 10 ELSE 11
SecretDigit(p) == IF p = password2 THEN 12 ELSE 13

\* a digest that does not depend on the invoice id
generateSignature_OutSumOnly(data) ==
  <<HexDigits[OutSumDigit(data[1]) + 1],
    HexDigits[1],
    HexDigits[SecretDigit(data[3]) + 1]>>

\* md5 hex digest of the joined string, taken as collision free: every part
\* of the signed string decides one digit
generateSignature(data) ==
  <<HexDigits[OutSumDigit(data[1]) + 1],
    HexDigits[InvIdDigit(data[2]) + 1],
    HexDigits[SecretDigit(data[3]) + 1]>>

\* WebhookDataSchema.parse: the three required fields are strings
WebhookDataSchemaOk(data) ==
  /\ data.OutSum # Null
  /\ data.InvId # Null
  /\ data.SignatureValue # NullSig

\* a verifier that only looks whether a signature is present
verifyWebhookSignature_AnySignature(data) == WebhookDataSchemaOk(data)

verifyWebhookSignature(data) ==
  IF ~WebhookDataSchemaOk(data) THEN FALSE
  ELSE LET signatureString == <<data.OutSum, data.InvId, password2>>
           expectedSignature == toUpperCase(generateSignature(signatureString))
           receivedSignature == toUpperCase(data.SignatureValue)
       IN  expectedSignature = receivedSignature

\* Math.round(parseFloat(OutSum) * 100)
Kopecks(o) == IF o = "99.00" THEN 9900 ELSE 99000

processPaymentSuccess(data) ==
  [userId      |-> data.Shp_UserId,
   planType    |-> IF data.Shp_PlanType = "" THEN "pro" ELSE data.Shp_PlanType,
   amount      |-> Kopecks(data.OutSum),
   invoiceId   |-> data.InvId,
   isRecurring |-> data.Shp_IsRecurring = "1"]

----------------------------------------------------------------------------
(* Tables *)

\* a lookup that takes every non-empty id for a user
UserExists_AnyId(id) == id # ""

\* db.select().from(user).where(eq(user.id, id)).limit(1) returns a row
UserExists(id) == id \in Users

\* db.select().from(subscription).where(eq(subscription.userId, userId))
SubscriptionsOf(userId) == {s \in subscription : s.userId = userId}

\* db.select().from(payment).where(eq(payment.userId, userId))
PaymentsOf(userId) == {p \in payment : p.userId = userId}

\* the generateId() calls a request may still make
IdsStillNeeded(s) ==
  IF pc[s] \in {"select_subscriptions", "write_subscription", "insert_one_time"}
    THEN 1 ELSE 0

RECURSIVE SumOver(_, _)
SumOver(f, S) == IF S = {} THEN 0
                 ELSE LET x == CHOOSE y \in S : TRUE
                      IN  f[x] + SumOver(f, S \ {x})

IdsReserved == nextId + SumOver([s \in Slots |-> IdsStillNeeded(s)], Slots)

----------------------------------------------------------------------------
(* Robokassa webhook route: POST *)

NoReq == [OutSum |-> Null, InvId |-> Null, SignatureValue |-> NullSig,
          Shp_UserId |-> "", Shp_PlanType |-> "", Shp_IsRecurring |-> ""]

\* the signature Robokassa sends for a notification
SignatureFor(o, i) == toUpperCase(generateSignature(<<o, i, password2>>))

\* the notification Robokassa sends for an invoice createPayment has issued:
\* inv1 pays a recurring pro plan, inv2 a one-time ultra plan, both of u1
Issued(i) ==
  [OutSum |-> "99.00", InvId |-> i, SignatureValue |-> SignatureFor("99.00", i),
   Shp_UserId |-> "u1",
   Shp_PlanType |-> IF i = "inv1" THEN "pro" ELSE "ultra",
   Shp_IsRecurring |-> IF i = "inv1" THEN "1" ELSE "0"]

\* notifications delivered to the route: the issued ones, one with the
\* signature of another invoice, ones without SignatureValue, OutSum or
\* InvId, and validly signed ones whose Shp_UserId names no user or is absent
WebhookInputs ==
  {Issued(i) : i \in InvIds}
    \cup {[Issued("inv1") EXCEPT !.SignatureValue = sg] :
            sg \in {SignatureFor("99.00", "inv2"), NullSig}}
    \cup {[Issued("inv1") EXCEPT !.OutSum = Null],
          [Issued("inv1") EXCEPT !.InvId = Null]}
    \cup {[Issued("inv1") EXCEPT !.Shp_UserId = u] : u \in {"ghost", ""}}

\* return of POST: the slot is free again and the response is recorded
Respond(r, status) ==
  /\ pc' = [pc EXCEPT ![r] = "idle"]
  /\ req' = [req EXCEPT ![r] = NoReq]
  /\ paymentId' = [paymentId EXCEPT ![r] = Null]
  /\ existingSubscriptions' = [existingSubscriptions EXCEPT ![r] = {}]
  /\ last' = status

NewPaymentRow(id, paymentData, now) ==
  [id |-> id,
   userId |-> paymentData.userId,
   subscriptionId |-> Null,
   merchantLogin |-> merchantLogin,
   invoiceId |-> paymentData.invoiceId,
   amount |-> paymentData.amount,
   currency |-> "RUB",
   status |-> "success",
   paymentType |-> IF paymentData.isRecurring THEN "recurring" ELSE "one_time",
   createdAt |-> now,
   paidAt |-> now,
   errorCode |-> Null]

\* POST up to the insert of the payment row: formData,
\* verifyWebhookSignature, processPaymentSuccess, the user id check, the
\* select on table user, generateId and db.insert(payment).  The table user
\* does not change, so no other request can tell the select from the insert.
RkReceive(r, data) ==
  /\ pc[r] = "idle"
  /\ UNCHANGED <<clock, ticks, reading, subscription, cacheVars>>
  /\ IF ~verifyWebhookSignature(data)
       THEN UNCHANGED <<nextId, payment>> /\ Respond(r, "401")
     ELSE IF processPaymentSuccess(data).userId = ""
       THEN UNCHANGED <<nextId, payment>> /\ Respond(r, "400")
     ELSE \/ UNCHANGED <<nextId, payment>> /\ Respond(r, "500")  \* the select throws
          \/ IF ~UserExists(processPaymentSuccess(data).userId)
               THEN UNCHANGED <<nextId, payment>> /\ Respond(r, "404")
               ELSE /\ IdsReserved + 2 <= MaxIds
                    /\ nextId' = nextId + 1
                    /\ \/ /\ payment' = payment \cup
                                {NewPaymentRow(generateId(nextId + 1), processPaymentSuccess(data), clock)}
                          /\ pc' = [pc EXCEPT ![r] =
                                      IF processPaymentSuccess(data).isRecurring
                                        THEN "select_subscriptions"
                                        ELSE "insert_one_time"]
                          /\ req' = [req EXCEPT ![r] = data]
                          /\ paymentId' = [paymentId EXCEPT ![r] = generateId(nextId + 1)]
                          /\ UNCHANGED <<existingSubscriptions, last>>
                       \/ /\ UNCHANGED payment          \* the insert throws
                          /\ Respond(r, "500")

\* handleRecurringSubscription: the select of the user's subscriptions
RkSelectSubscriptions(r) ==
  /\ pc[r] = "select_subscriptions"
  /\ UNCHANGED <<clock, ticks, reading, nextId, dbVars, cacheVars>>
  /\ \/ /\ existingSubscriptions' =
             [existingSubscriptions EXCEPT ![r] = SubscriptionsOf(processPaymentSuccess(req[r]).userId)]
        /\ pc' = [pc EXCEPT ![r] = "write_subscription"]
        /\ UNCHANGED <<req, paymentId, last>>
     \/ Respond(r, "500")                           \* the select throws

recurringIntervalOf(planType) == IF planType = "ultra" THEN "yearly" ELSE "monthly"

periodEndOf(now, recurringInterval) ==
  IF recurringInterval = "monthly" THEN setMonthPlus1(now) ELSE setFullYearPlus1(now)

\* existingSubscriptions.find(sub => active and of the paid plan)
ActiveMatches(rows, planType) ==
  {s \in rows : s.status = "active" /\ s.planType = planType}

\* an update that leaves the count of failed payments as it is
RenewedRows_KeepsFailedCount(id, periodEnd, pid) ==
  {IF s.id = id
     THEN [s EXCEPT !.currentPeriodEnd = periodEnd,
                    !.lastPaymentId = pid,
                    !.nextPaymentDate = periodEnd]
     ELSE s : s \in subscription}

\* db.update(subscription).set({...}).where(eq(subscription.id, id))
RenewedRows(id, periodEnd, pid) ==
  {IF s.id = id
     THEN [s EXCEPT !.currentPeriodEnd = periodEnd,
                    !.lastPaymentId = pid,
                    !.nextPaymentDate = periodEnd,
                    !.failedPaymentsCount = 0]
     ELSE s : s \in subscription}

\* a row whose first period is a month whatever its interval
NewRecurringRow_MonthlyEnd(id, paymentData, pid, now) ==
  [id |-> id,
   userId |-> paymentData.userId,
   merchantLogin |-> merchantLogin,
   recurringId |-> paymentData.invoiceId,
   planType |-> paymentData.planType,
   amount |-> paymentData.amount,
   recurringInterval |-> recurringIntervalOf(paymentData.planType),
   status |-> "active",
   createdAt |-> now,
   startedAt |-> now,
   currentPeriodStart |-> now,
   currentPeriodEnd |-> setMonthPlus1(now),
   cancelAtPeriodEnd |-> FALSE,
   canceledAt |-> NullTime,
   lastPaymentId |-> pid,
   nextPaymentDate |-> setMonthPlus1(now),
   failedPaymentsCount |-> 0,
   createdFromPayment |-> pid]

NewRecurringRow(id, paymentData, pid, now) ==
  [id |-> id,
   userId |-> paymentData.userId,
   merchantLogin |-> merchantLogin,
   recurringId |-> paymentData.invoiceId,
   planType |-> paymentData.planType,
   amount |-> paymentData.amount,
   recurringInterval |-> recurringIntervalOf(paymentData.planType),
   status |-> "active",
   createdAt |-> now,
   startedAt |-> now,
   currentPeriodStart |-> now,
   currentPeriodEnd |-> periodEndOf(now, recurringIntervalOf(paymentData.planType)),
   cancelAtPeriodEnd |-> FALSE,
   canceledAt |-> NullTime,
   lastPaymentId |-> pid,
   nextPaymentDate |-> periodEndOf(now, recurringIntervalOf(paymentData.planType)),
   failedPaymentsCount |-> 0,
   createdFromPayment |-> pid]

\* handleRecurringSubscription: renewal of the active subscription found in
\* the rows read, or insert of a new one
RkWriteSubscription(r) ==
  /\ pc[r] = "write_subscription"
  /\ UNCHANGED <<clock, ticks, reading, payment, cacheVars>>
  /\ LET paymentData == processPaymentSuccess(req[r])
         matches == ActiveMatches(existingSubscriptions[r], paymentData.planType)
         now == clock
         periodEnd == periodEndOf(now, recurringIntervalOf(paymentData.planType))
     IN  IF matches # {}
         THEN /\ UNCHANGED nextId
              /\ \/ \E activeSubscription \in matches :
                      /\ subscription' = RenewedRows(activeSubscription.id, periodEnd, paymentId[r])
                      /\ Respond(r, "200")
                 \/ /\ UNCHANGED subscription        \* the update throws
                    /\ Respond(r, "500")
         ELSE /\ nextId' = nextId + 1
              /\ \/ /\ subscription' = subscription \cup
                          {NewRecurringRow(generateId(nextId + 1), paymentData, paymentId[r], now)}
                    /\ pc' = [pc EXCEPT ![r] = "link_payment"]
                    /\ UNCHANGED <<req, paymentId, existingSubscriptions, last>>
                 \/ /\ UNCHANGED subscription        \* the insert throws
                    /\ Respond(r, "500")

\* a row whose access window follows the plan as in
\* handleRecurringSubscription
NewOneTimeRow_PlanWindow(id, paymentData, pid, now) ==
  [id |-> id,
   userId |-> paymentData.userId,
   merchantLogin |-> merchantLogin,
   recurringId |-> Null,
   planType |-> paymentData.planType,
   amount |-> paymentData.amount,
   recurringInterval |-> "monthly",
   status |-> "active",
   createdAt |-> now,
   startedAt |-> now,
   currentPeriodStart |-> now,
   currentPeriodEnd |-> periodEndOf(now, recurringIntervalOf(paymentData.planType)),
   cancelAtPeriodEnd |-> TRUE,
   canceledAt |-> NullTime,
   lastPaymentId |-> pid,
   nextPaymentDate |-> NullTime,
   failedPaymentsCount |-> 0,
   createdFromPayment |-> pid]

NewOneTimeRow(id, paymentData, pid, now) ==
  [id |-> id,
   userId |-> paymentData.userId,
   merchantLogin |-> merchantLogin,
   recurringId |-> Null,
   planType |-> paymentData.planType,
   amount |-> paymentData.amount,
   recurringInterval |-> "monthly",
   status |-> "active",
   createdAt |-> now,
   startedAt |-> now,
   currentPeriodStart |-> now,
   currentPeriodEnd |-> setMonthPlus1(now),
   cancelAtPeriodEnd |-> TRUE,
   canceledAt |-> NullTime,
   lastPaymentId |-> pid,
   nextPaymentDate |-> NullTime,
   failedPaymentsCount |-> 0,
   createdFromPayment |-> pid]

\* handleOneTimePayment: insert of the one-month subscription
RkInsertOneTime(r) ==
  /\ pc[r] = "insert_one_time"
  /\ UNCHANGED <<clock, ticks, reading, payment, cacheVars>>
  /\ nextId' = nextId + 1
  /\ \/ /\ subscription' = subscription \cup
              {NewOneTimeRow(generateId(nextId + 1), processPaymentSuccess(req[r]), paymentId[r], clock)}
        /\ pc' = [pc EXCEPT ![r] = "link_payment"]
        /\ UNCHANGED <<req, paymentId, existingSubscriptions, last>>
     \/ /\ UNCHANGED subscription                    \* the insert throws
        /\ Respond(r, "500")

\* the subscription a request has inserted
subscriptionIdOf(r) ==
  CHOOSE id \in {s.id : s \in subscription} :
    \E s \in subscription : s.id = id /\ s.createdFromPayment = paymentId[r]

\* db.update(payment).set({ subscriptionId }).where(eq(payment.id, paymentId))
RkLinkPayment(r) ==
  /\ pc[r] = "link_payment"
  /\ UNCHANGED <<clock, ticks, reading, nextId, subscription, cacheVars>>
  /\ \/ /\ payment' = {IF p.id = paymentId[r]
                         THEN [p EXCEPT !.subscriptionId = subscriptionIdOf(r)]
                         ELSE p : p \in payment}
        /\ Respond(r, "200")
     \/ /\ UNCHANGED payment                         \* the update throws
        /\ Respond(r, "500")

\* the steps of one request, its notification drawn from inputs
RkStepOn(r, inputs) ==
  \/ \E data \in inputs : RkReceive(r, data)
  \/ RkSelectSubscriptions(r)
  \/ RkWriteSubscription(r)
  \/ RkInsertOneTime(r)
  \/ RkLinkPayment(r)

RkStep(r) == RkStepOn(r, WebhookInputs)

IssuedInputs == {Issued(i) : i \in InvIds}

----------------------------------------------------------------------------
(* performance-cache *)

\* time to live of an entry of the two caches, in minutes
PerformanceCacheTtl == 5

\* entries of a cache for one key
CacheGet(cache, key) == {e \in cache : e.key = key}

CacheDelete(cache, key) == {e \in cache : e.key # key}

\* invalidateUserCaches(userId): drops the user's entry of the
\* subscription-details cache and of the pro-status cache
invalidateUserCaches(userId) ==
  /\ subscriptionCache' = CacheDelete(subscriptionCache, userId)
  /\ proUserStatusCache' = CacheDelete(proUserStatusCache, userId)
  /\ UNCHANGED userDataCache

----------------------------------------------------------------------------
(* Dodo Payments webhook: onPayload *)

\* a handler that also takes the subscription events for payments
DodoPaymentTypes_WithSubscriptionEvents ==
  {"payment.succeeded", "payment.failed", "payment.cancelled",
   "payment.processing", "subscription.active"}

DodoPaymentTypes == {"payment.succeeded", "payment.failed",
                     "payment.cancelled", "payment.processing"}

\* payloads delivered by Dodo Payments: the events of payment dp1 of the
\* customer with the email of u1, of an unknown email or without email, and
\* an event of another kind
DodoInputs ==
  {[type |-> t[1],
    data |-> [payment_id |-> "dp1", email |-> e, status |-> t[2],
              subscription_id |-> Null, total_amount |-> "99.00",
              created_at |-> 0, error_code |-> t[3]]] :
     t \in {<<"payment.succeeded", "succeeded", Null>>,
            <<"payment.processing", "processing", Null>>,
            <<"payment.failed", "failed", "card_declined">>,
            <<"subscription.active", "active", Null>>},
     e \in {"u1@x", "ghost@x", Null}}

\* db.query.user.findFirst({ where: eq(user.email, email) })
UserByEmail(email) == {u \in Users : EmailOf(u) = email}

DodoPaymentData(data, validUserId) ==
  [id |-> data.payment_id,
   userId |-> validUserId,
   subscriptionId |-> data.subscription_id,
   merchantLogin |-> "dodo_merchant",
   invoiceId |-> data.payment_id,
   amount |-> Kopecks(data.total_amount),
   currency |-> "RUB",
   status |-> IF data.status = "succeeded" THEN "success"
              ELSE IF data.status = "failed" THEN "failed" ELSE "pending",
   paymentType |-> IF data.subscription_id # Null THEN "subscription" ELSE "one_time",
   createdAt |-> data.created_at,
   paidAt |-> IF data.status = "succeeded" THEN data.created_at ELSE NullTime,
   errorCode |-> data.error_code]

\* db.insert(payment).values([paymentData]).onConflictDoUpdate({ target: payment.id, set })
UpsertPayment(paymentData) ==
  IF \E p \in payment : p.id = paymentData.id
    THEN {IF p.id = paymentData.id
            THEN [p EXCEPT !.status = paymentData.status,
                           !.errorCode = paymentData.errorCode,
                           !.userId = paymentData.userId]
            ELSE p : p \in payment}
    ELSE payment \cup {paymentData}

DodoOnPayload(payload) ==
  /\ UNCHANGED <<clock, ticks, reading, nextId, subscription, rkVars>>
  /\ IF payload.type \notin DodoPaymentTypes
       THEN /\ last' = "dodo_ignored"
            /\ UNCHANGED <<payment, cacheVars>>
     ELSE IF payload.data.email = Null \/ UserByEmail(payload.data.email) = {}
       THEN /\ last' = "dodo_skipped"
            /\ UNCHANGED <<payment, cacheVars>>
     ELSE \/ /\ last' = "dodo_lookup_error"   \* findFirst throws: return
             /\ UNCHANGED <<payment, cacheVars>>
          \/ /\ last' = "dodo_error"          \* the upsert throws: caught, logged
             /\ UNCHANGED <<payment, cacheVars>>
          \/ \E validUserId \in UserByEmail(payload.data.email) :
               /\ payment' = UpsertPayment(DodoPaymentData(payload.data, validUserId))
               /\ invalidateUserCaches(validUserId)
               /\ last' = "dodo_upserted"

----------------------------------------------------------------------------
(* Polar webhook: onPayload *)

PolarSubscriptionTypes == {"subscription.created", "subscription.active",
                           "subscription.canceled", "subscription.revoked",
                           "subscription.uncanceled", "subscription.updated"}

NEXT_PUBLIC_STARTER_TIER == "prod_starter"

\* payloads delivered by Polar: subscription ps1 of the starter product,
\* active or canceled, of customer u1, of an unknown customer or without
\* external id, and an event of another kind
PolarInputs ==
  {[type |-> t[1],
    data |-> [id |-> "ps1", externalId |-> x, productId |-> NEXT_PUBLIC_STARTER_TIER,
              amount |-> 9900, recurringInterval |-> "month", status |-> t[2],
              createdAt |-> 0, startedAt |-> 0, currentPeriodStart |-> 0,
              currentPeriodEnd |-> setMonthPlus1(0),
              cancelAtPeriodEnd |-> FALSE, canceledAt |-> t[3]]] :
     t \in {<<"subscription.active", "active", NullTime>>,
            <<"subscription.canceled", "canceled", 0>>,
            <<"order.paid", "paid", NullTime>>},
     x \in {"u1", "ghost", Null}}

PolarSubscriptionData(data, validUserId) ==
  [id |-> data.id,
   userId |-> validUserId,
   merchantLogin |-> "polar_merchant",
   recurringId |-> Null,
   planType |-> IF data.productId = NEXT_PUBLIC_STARTER_TIER THEN "pro" ELSE "ultra",
   amount |-> data.amount,
   recurringInterval |-> IF data.recurringInterval = "month" THEN "monthly" ELSE "yearly",
   status |-> data.status,
   createdAt |-> data.createdAt,
   startedAt |-> data.startedAt,
   currentPeriodStart |-> data.currentPeriodStart,
   currentPeriodEnd |-> data.currentPeriodEnd,
   cancelAtPeriodEnd |-> data.cancelAtPeriodEnd,
   canceledAt |-> data.canceledAt,
   lastPaymentId |-> Null,
   nextPaymentDate |-> data.currentPeriodEnd,
   failedPaymentsCount |-> 0,
   createdFromPayment |-> Null]

\* db.insert(subscription).values([subscriptionData]).onConflictDoUpdate({ target: subscription.id, set })
UpsertSubscription(subscriptionData) ==
  IF \E s \in subscription : s.id = subscriptionData.id
    THEN {IF s.id = subscriptionData.id
            THEN [s EXCEPT !.amount = subscriptionData.amount,
                           !.recurringInterval = subscriptionData.recurringInterval,
                           !.status = subscriptionData.status,
                           !.currentPeriodStart = subscriptionData.currentPeriodStart,
                           !.currentPeriodEnd = subscriptionData.currentPeriodEnd,
                           !.cancelAtPeriodEnd = subscriptionData.cancelAtPeriodEnd,
                           !.canceledAt = subscriptionData.canceledAt,
                           !.nextPaymentDate = subscriptionData.nextPaymentDate,
                           !.userId = subscriptionData.userId]
            ELSE s : s \in subscription}
    ELSE subscription \cup {subscriptionData}

PolarOnPayload(payload) ==
  /\ UNCHANGED <<clock, ticks, reading, nextId, payment, rkVars>>
  /\ IF payload.type \notin PolarSubscriptionTypes
       THEN /\ last' = "polar_ignored"
            /\ UNCHANGED <<subscription, cacheVars>>
     ELSE IF payload.data.externalId = Null \/ ~UserExists(payload.data.externalId)
       THEN /\ last' = "polar_skipped"
            /\ UNCHANGED <<subscription, cacheVars>>
     ELSE \/ /\ last' = "polar_lookup_error"  \* findFirst throws: skipped
             /\ UNCHANGED <<subscription, cacheVars>>
          \/ /\ last' = "polar_error"         \* the upsert throws: caught, logged
             /\ UNCHANGED <<subscription, cacheVars>>
          \/ /\ subscription' = UpsertSubscription(
                                  PolarSubscriptionData(payload.data, payload.data.externalId))
             /\ invalidateUserCaches(payload.data.externalId)
             /\ last' = "polar_upserted"

----------------------------------------------------------------------------
(* Entitlement: lib/subscription.ts and lib/user-data-server.ts *)

gracePeriodDays == 3
maxFailedPayments == 3

\* users that hold a session
SessionUsers == {"u1"}

\* a predicate without the grace period branch
IsEntitling_ActiveOnly(sub, now) ==
  sub.status = "active" /\ sub.currentPeriodEnd > now

\* the predicate of the find / filter callbacks of the three resolvers
IsEntitling(sub, now) ==
  LET gracePeriod == now - (gracePeriodDays * MinutesPerDay)
  IN  IF sub.status = "active" THEN sub.currentPeriodEnd > now
      ELSE IF sub.status = "expired" /\ sub.failedPaymentsCount < maxFailedPayments
        THEN sub.currentPeriodEnd > gracePeriod
      ELSE FALSE

\* rows.find(callback): the first entitling row in the order the store
\* returned the rows, which is any of the entitling rows
FindEntitling(rows, now) == {s \in rows : IsEntitling(s, now)}

\* rows.sort((a, b) => b.createdAt - a.createdAt)[0]: a row created last;
\* the sort is stable, so among equal createdAt the store's order decides
SortedFirst(rows) == {s \in rows : \A o \in rows : o.createdAt <= s.createdAt}

\* the fields the resolvers copy from a subscription row
SubscriptionDetailsOf(sub) ==
  [id |-> sub.id, planType |-> sub.planType, status |-> sub.status,
   amount |-> sub.amount, recurringInterval |-> sub.recurringInterval,
   currentPeriodStart |-> sub.currentPeriodStart,
   currentPeriodEnd |-> sub.currentPeriodEnd,
   cancelAtPeriodEnd |-> sub.cancelAtPeriodEnd, canceledAt |-> sub.canceledAt,
   merchantLogin |-> sub.merchantLogin, recurringId |-> sub.recurringId,
   failedPaymentsCount |-> sub.failedPaymentsCount]

\* the result of getRobokassaProStatus(userId) when the select succeeds: one
\* value for each row the find may return
RobokassaProStatusOf(userId) ==
  LET found == FindEntitling(SubscriptionsOf(userId), clock)
  IN  IF found # {}
        THEN {[isProUser |-> TRUE, source |-> "robokassa", planType |-> a.planType] :
                a \in found}
        ELSE {[isProUser |-> FALSE, source |-> "none", planType |-> Null]}

\* getRobokassaProStatus(userId).isProUser when the select succeeds
getRobokassaProStatus(userId) == FindEntitling(SubscriptionsOf(userId), clock) # {}

\* the values getRobokassaProStatus(userId).isProUser can take: the select
\* may throw, which the function answers with false
ProStatusOutcomes(userId) == {getRobokassaProStatus(userId), FALSE}

(* user-data-server.ts *)

CACHE_TTL_MS == 5

\* a lookup that still serves the entry at the instant it expires
getCachedUserData_ServesAtExpiry(userId) ==
  {e \in CacheGet(userDataCache, userId) : e.expiresAt >= clock}

\* getCachedUserData(userId): the unexpired entry, if any
getCachedUserData(userId) ==
  {e \in CacheGet(userDataCache, userId) : e.expiresAt > clock}

\* the reads that await the database between their cache lookup and their
\* cache write
ReadKinds == {"userData", "details"}

\* no read of the kind is waiting
NoRead == [userId |-> Null, rows |-> {}, history |-> {}]

\* the ComprehensiveUserData getComprehensiveUserData computes from the
\* rows it has selected: one value for each row the find and the sort may
\* put first
ComprehensiveDataFrom(rows, history, now) ==
  LET found == FindEntitling(rows, now)
  IN  IF found # {}
        THEN {[isProUser |-> TRUE, proSource |-> "robokassa",
               subscriptionStatus |-> "active",
               robokassaSubscription |-> {SubscriptionDetailsOf(a)},
               paymentHistory |-> history] : a \in found}
      ELSE IF rows = {}
        THEN {[isProUser |-> FALSE, proSource |-> "none",
               subscriptionStatus |-> "none",
               robokassaSubscription |-> {},
               paymentHistory |-> history]}
      ELSE {[isProUser |-> FALSE, proSource |-> "none",
             subscriptionStatus |-> IF l.status = "canceled" THEN "canceled"
                                    ELSE IF l.currentPeriodEnd < now THEN "expired"
                                    ELSE "none",
             robokassaSubscription |-> {},
             paymentHistory |-> history] : l \in SortedFirst(rows)}

\* the same computed from the tables as they are
ComprehensiveData(userId) ==
  ComprehensiveDataFrom(SubscriptionsOf(userId), PaymentsOf(userId), clock)

\* getComprehensiveUserData() of the session user: a cache hit returns the
\* entry; otherwise an expired entry is deleted, the tables are read and the
\* result is cached, unless a select throws
GetComprehensiveUserData(userId) ==
  /\ UNCHANGED <<clock, ticks, reading, nextId, dbVars, rkVars, last,
                 subscriptionCache, proUserStatusCache>>
  /\ IF getCachedUserData(userId) # {}
       THEN UNCHANGED userDataCache
       ELSE \/ userDataCache' = CacheDelete(userDataCache, userId)   \* a select throws
            \/ \E data \in ComprehensiveData(userId) :
                 userDataCache' = CacheDelete(userDataCache, userId) \cup
                   {[key |-> userId, data |-> data, expiresAt |-> clock + CACHE_TTL_MS]}

(* subscription.ts *)

\* cache.get(key) of performance-cache: the unexpired entry, if any
PerfCacheGet(cache, key) == {e \in CacheGet(cache, key) : e.expiresAt > clock}

\* cache.set(key, data) of performance-cache
PerfCacheSet(cache, key, data) ==
  CacheDelete(cache, key) \cup
    {[key |-> key, data |-> data, expiresAt |-> clock + PerformanceCacheTtl]}

\* isUserProCached() of the session user
IsUserProCached(userId) ==
  /\ UNCHANGED <<clock, ticks, reading, nextId, dbVars, rkVars, last,
                 userDataCache, subscriptionCache>>
  /\ IF PerfCacheGet(proUserStatusCache, userId) # {}
       THEN UNCHANGED proUserStatusCache
       ELSE \E isProUser \in ProStatusOutcomes(userId) :
              proUserStatusCache' = PerfCacheSet(proUserStatusCache, userId, isProUser)

\* details whose filter knows no grace period
SubscriptionDetailsFrom_ActiveOnly(rows, now) ==
  LET found == SortedFirst({s \in rows : IsEntitling_ActiveOnly(s, now)})
  IN  IF rows = {}
        THEN {[hasSubscription |-> FALSE, subscription |-> {}, errorType |-> "none"]}
      ELSE IF found # {}
        THEN {[hasSubscription |-> TRUE, subscription |-> {SubscriptionDetailsOf(a)},
               errorType |-> "none"] : a \in found}
      ELSE {[hasSubscription |-> TRUE, subscription |-> {SubscriptionDetailsOf(l)},
             errorType |-> IF l.status = "canceled" THEN "CANCELED"
                           ELSE IF l.currentPeriodEnd < now THEN "EXPIRED"
                           ELSE "GENERAL"] : l \in SortedFirst(rows)}

\* the SubscriptionDetailsResult getSubscriptionDetails computes from the
\* rows it has selected
SubscriptionDetailsFrom(rows, now) ==
  LET found == SortedFirst(FindEntitling(rows, now))
  IN  IF rows = {}
        THEN {[hasSubscription |-> FALSE, subscription |-> {}, errorType |-> "none"]}
      ELSE IF found # {}
        THEN {[hasSubscription |-> TRUE, subscription |-> {SubscriptionDetailsOf(a)},
               errorType |-> "none"] : a \in found}
      ELSE {[hasSubscription |-> TRUE, subscription |-> {SubscriptionDetailsOf(l)},
             errorType |-> IF l.status = "canceled" THEN "CANCELED"
                           ELSE IF l.currentPeriodEnd < now THEN "EXPIRED"
                           ELSE "GENERAL"] : l \in SortedFirst(rows)}

\* the same computed from the tables as they are
SubscriptionDetailsResults(userId) ==
  SubscriptionDetailsFrom(SubscriptionsOf(userId), clock)

\* getSubscriptionDetails() of the session user: on a hit of the details
\* cache the pro status is recomputed and stored; otherwise the result is
\* computed and both caches are written, unless the first select throws
GetSubscriptionDetails(userId) ==
  /\ UNCHANGED <<clock, ticks, reading, nextId, dbVars, rkVars, last, userDataCache>>
  /\ IF PerfCacheGet(subscriptionCache, userId) # {}
       THEN /\ UNCHANGED subscriptionCache
            /\ \E isProUser \in ProStatusOutcomes(userId) :
                 proUserStatusCache' = PerfCacheSet(proUserStatusCache, userId, isProUser)
       ELSE \/ UNCHANGED <<subscriptionCache, proUserStatusCache>>  \* the select throws
            \/ \E result \in SubscriptionDetailsResults(userId) :
                 /\ subscriptionCache' = PerfCacheSet(subscriptionCache, userId, result)
                 /\ IF result.hasSubscription /\ result.errorType = "none"
                      THEN proUserStatusCache' = PerfCacheSet(proUserStatusCache, userId, TRUE)
                      ELSE \E isProUser \in ProStatusOutcomes(userId) :
                             proUserStatusCache' =
                               PerfCacheSet(proUserStatusCache, userId, isProUser)

(* the reads step by step: the select and the cache write of one call are
   separated by an await, so other handlers run in between *)

\* getComprehensiveUserData() up to its selects: a cache hit returns at
\* once; otherwise an expired entry is deleted and the selects run
UserDataSelect(userId) ==
  /\ reading["userData"] = NoRead
  /\ UNCHANGED <<clock, ticks, nextId, dbVars, rkVars, last,
                 subscriptionCache, proUserStatusCache>>
  /\ IF getCachedUserData(userId) # {}
       THEN UNCHANGED <<userDataCache, reading>>
       ELSE /\ userDataCache' = CacheDelete(userDataCache, userId)
            /\ reading' = [reading EXCEPT !["userData"] =
                             [userId |-> userId,
                              rows |-> SubscriptionsOf(userId),
                              history |-> PaymentsOf(userId)]]

\* getComprehensiveUserData() after Promise.all: the result is computed
\* from the rows selected and stored, unless a select has thrown
UserDataStore(userId) ==
  /\ reading["userData"].userId = userId
  /\ UNCHANGED <<clock, ticks, nextId, dbVars, rkVars, last,
                 subscriptionCache, proUserStatusCache>>
  /\ reading' = [reading EXCEPT !["userData"] = NoRead]
  /\ \/ UNCHANGED userDataCache
     \/ \E data \in ComprehensiveDataFrom(reading["userData"].rows,
                                          reading["userData"].history, clock) :
          userDataCache' = CacheDelete(userDataCache, userId) \cup
            {[key |-> userId, data |-> data, expiresAt |-> clock + CACHE_TTL_MS]}

\* getSubscriptionDetails() up to its select: on a hit of the details cache
\* the pro status is recomputed and stored; otherwise the select runs
DetailsSelect(userId) ==
  /\ reading["details"] = NoRead
  /\ UNCHANGED <<clock, ticks, nextId, dbVars, rkVars, last,
                 userDataCache, subscriptionCache>>
  /\ IF PerfCacheGet(subscriptionCache, userId) # {}
       THEN /\ UNCHANGED reading
            /\ \E isProUser \in ProStatusOutcomes(userId) :
                 proUserStatusCache' = PerfCacheSet(proUserStatusCache, userId, isProUser)
       ELSE /\ UNCHANGED proUserStatusCache
            /\ reading' = [reading EXCEPT !["details"] =
                             [userId |-> userId,
                              rows |-> SubscriptionsOf(userId),
                              history |-> {}]]

\* getSubscriptionDetails() after its select: the result is computed from
\* the rows selected and both caches are written, unless the select has
\* thrown
DetailsStore(userId) ==
  /\ reading["details"].userId = userId
  /\ UNCHANGED <<clock, ticks, nextId, dbVars, rkVars, last, userDataCache>>
  /\ reading' = [reading EXCEPT !["details"] = NoRead]
  /\ \/ UNCHANGED <<subscriptionCache, proUserStatusCache>>
     \/ \E result \in SubscriptionDetailsFrom(reading["details"].rows, clock) :
          /\ subscriptionCache' = PerfCacheSet(subscriptionCache, userId, result)
          /\ IF result.hasSubscription /\ result.errorType = "none"
               THEN proUserStatusCache' = PerfCacheSet(proUserStatusCache, userId, TRUE)
               ELSE \E isProUser \in ProStatusOutcomes(userId) :
                      proUserStatusCache' =
                        PerfCacheSet(proUserStatusCache, userId, isProUser)

----------------------------------------------------------------------------
(* Clock *)

\* time passes: one cache lifetime
Tick ==
  /\ ticks < MaxTicks
  /\ clock' = clock + CACHE_TTL_MS
  /\ ticks' = ticks + 1
  /\ UNCHANGED <<nextId, dbVars, rkVars, last, cacheVars, reading>>

\* minutes that pass in the study of one entry's lifetime: two lifetimes
\* and a minute for each tick allowed
MaxMinutes == (MaxTicks + 1) * CACHE_TTL_MS + 1

\* time passes: one minute
Minute ==
  /\ ticks < MaxMinutes
  /\ clock' = clock + 1
  /\ ticks' = ticks + 1
  /\ UNCHANGED <<nextId, dbVars, rkVars, last, cacheVars, reading>>

----------------------------------------------------------------------------

Init ==
  /\ clock = 0
  /\ ticks = 0
  /\ nextId = 0
  /\ payment = {}
  /\ subscription = {}
  /\ pc = [r \in Slots |-> "idle"]
  /\ req = [r \in Slots |-> NoReq]
  /\ paymentId = [r \in Slots |-> Null]
  /\ existingSubscriptions = [r \in Slots |-> {}]
  /\ last = "none"
  /\ userDataCache = {}
  /\ subscriptionCache = {}
  /\ proUserStatusCache = {}
  /\ reading = [k \in ReadKinds |-> NoRead]

\* the Robokassa route serving requests concurrently
Next ==
  \/ \E r \in Slots : RkStep(r)
  \/ Tick

Spec == Init /\ [][Next]_vars

\* the three providers' handlers, the Robokassa route serving one request
\* at a time
NextHooks ==
  \/ RkStep(1)
  \/ \E payload \in DodoInputs : DodoOnPayload(payload)
  \/ \E payload \in PolarInputs : PolarOnPayload(payload)

SpecHooks == Init /\ [][NextHooks]_vars

\* payloads of Polar that name an existing user
PolarLinkedInputs == {p \in PolarInputs : UserExists(p.data.externalId)}

\* issued notifications of the session user, served one at a time, together
\* with getComprehensiveUserData
NextCache ==
  \/ RkStepOn(1, IssuedInputs)
  \/ \E u \in SessionUsers : GetComprehensiveUserData(u)
  \/ Tick

SpecCache == Init /\ [][NextCache]_vars

\* issued notifications and Polar events of the session user together with
\* the cached reads of lib/subscription.ts
NextPerf ==
  \/ RkStepOn(1, IssuedInputs)
  \/ \E payload \in PolarLinkedInputs : PolarOnPayload(payload)
  \/ \E u \in SessionUsers : IsUserProCached(u)
  \/ \E u \in SessionUsers : GetSubscriptionDetails(u)
  \/ Tick

SpecPerf == Init /\ [][NextPerf]_vars

(* The resolvers over stored tables *)

\* a row of table subscription of the session user as the schema admits it
StoredRow(id, planType, status, createdAt, periodEnd, failed) ==
  [id |-> id,
   userId |-> "u1",
   merchantLogin |-> merchantLogin,
   recurringId |-> Null,
   planType |-> planType,
   amount |-> 9900,
   recurringInterval |-> "monthly",
   status |-> status,
   createdAt |-> createdAt,
   startedAt |-> createdAt,
   currentPeriodStart |-> createdAt,
   currentPeriodEnd |-> periodEnd,
   cancelAtPeriodEnd |-> FALSE,
   canceledAt |-> IF status = "canceled" THEN createdAt ELSE NullTime,
   lastPaymentId |-> Null,
   nextPaymentDate |-> periodEnd,
   failedPaymentsCount |-> failed,
   createdFromPayment |-> Null]

\* the time of the first read: late enough for a period to have ended
\* before the grace period
ResolveNow == (gracePeriodDays + 1) * MinutesPerDay

StoredStatuses == {"active", "expired", "canceled"}

\* period ends: before the grace period, inside it by a cache lifetime, a
\* day ago, a cache lifetime ahead, a month ahead
StoredPeriodEnds ==
  {0,
   (ResolveNow - (gracePeriodDays * MinutesPerDay)) + CACHE_TTL_MS,
   ResolveNow - MinutesPerDay,
   ResolveNow + CACHE_TTL_MS,
   setMonthPlus1(ResolveNow)}

StoredFailedCounts == {1, maxFailedPayments}

\* the older row of the user, of plan pro
OlderRows ==
  {StoredRow("s1", "pro", st, 0, pe, f) :
     st \in StoredStatuses, pe \in StoredPeriodEnds, f \in StoredFailedCounts}

\* the younger row of the user, of plan ultra
YoungerRows ==
  {StoredRow("s2", "ultra", st, 1, pe, 1) :
     st \in StoredStatuses,
     pe \in {ResolveNow - MinutesPerDay, setMonthPlus1(ResolveNow)}}

\* contents of table subscription: no row, the older row, or both
StoredTables ==
  {{}} \cup {{a} : a \in OlderRows}
       \cup {{a, b} : a \in OlderRows, b \in YoungerRows}

InitResolve ==
  /\ clock = ResolveNow
  /\ ticks = 0
  /\ nextId = 0
  /\ payment = {}
  /\ subscription \in StoredTables
  /\ pc = [r \in Slots |-> "idle"]
  /\ req = [r \in Slots |-> NoReq]
  /\ paymentId = [r \in Slots |-> Null]
  /\ existingSubscriptions = [r \in Slots |-> {}]
  /\ last = "none"
  /\ userDataCache = {}
  /\ subscriptionCache = {}
  /\ proUserStatusCache = {}
  /\ reading = [k \in ReadKinds |-> NoRead]

\* the three reads of the session user while time passes
NextResolve ==
  \/ \E u \in SessionUsers : GetComprehensiveUserData(u)
  \/ \E u \in SessionUsers : IsUserProCached(u)
  \/ \E u \in SessionUsers : GetSubscriptionDetails(u)
  \/ Tick

SpecResolve == InitResolve /\ [][NextResolve]_vars

(* Signed notifications *)

\* the notification signed for (o, i) with a secret, in the letter case the
\* sender chose, arriving with OutSum o2 and InvId i2
SignedForm(o, i, secret, upper, o2, i2) ==
  [Issued(i2) EXCEPT
     !.OutSum = o2,
     !.SignatureValue = IF upper THEN toUpperCase(generateSignature(<<o, i, secret>>))
                        ELSE generateSignature(<<o, i, secret>>)]

\* what arrives of a notification signed for (o, i): the signed values, or
\* one of the two changed
Arrivals(o, i) ==
  {<<o, i>>} \cup {<<o2, i>> : o2 \in OutSums} \cup {<<o, i2>> : i2 \in InvIds}

\* every signed notification with what is known of its making: genuine when
\* it was signed with the webhook secret and arrives with the OutSum and
\* InvId it was signed for.  The secret of the payment link signs only
\* unmodified notifications.
SignedVerdicts ==
  UNION {{[form |-> SignedForm(s[1], s[2], password2, upper, a[1], a[2]),
           genuine |-> (a = s)] :
            upper \in BOOLEAN, a \in Arrivals(s[1], s[2])} :
         s \in OutSums \X InvIds}
  \cup
  {[form |-> SignedForm(o, i, password1, TRUE, o, i), genuine |-> FALSE] :
     o \in OutSums, i \in InvIds}

SignedForms == {v.form : v \in SignedVerdicts}

\* the route serving signed notifications one at a time
NextVerify == RkStepOn(1, SignedForms)

SpecVerify == Init /\ [][NextVerify]_vars

(* Recurring payments *)

\* notifications of payments createPayment has issued to u1: the recurring
\* pro plan under inv1, the ultra plan under inv2, recurring or one-time
RecurringInputs ==
  {Issued("inv1"), [Issued("inv2") EXCEPT !.Shp_IsRecurring = "1"], Issued("inv2")}

\* the route serving recurring notifications concurrently while time passes
NextRecurring ==
  \/ \E r \in Slots : RkStepOn(r, RecurringInputs)
  \/ Tick

SpecRecurring == Init /\ [][NextRecurring]_vars

(* Events of every kind *)

\* the events of Dodo and of Polar, of handled and of other kinds, while
\* the session user's reads fill the caches
NextKinds ==
  \/ \E payload \in DodoInputs : DodoOnPayload(payload)
  \/ \E payload \in PolarInputs : PolarOnPayload(payload)
  \/ \E u \in SessionUsers : GetComprehensiveUserData(u)
  \/ \E u \in SessionUsers : IsUserProCached(u)
  \/ \E u \in SessionUsers : GetSubscriptionDetails(u)

SpecKinds == Init /\ [][NextKinds]_vars

(* Renewals *)

\* table subscription holds the active pro subscription of u1, one payment
\* of which has failed
InitRenewal ==
  /\ clock = 0
  /\ ticks = 0
  /\ nextId = 0
  /\ payment = {}
  /\ subscription = {StoredRow("s1", "pro", "active", 0, setMonthPlus1(0), 1)}
  /\ pc = [r \in Slots |-> "idle"]
  /\ req = [r \in Slots |-> NoReq]
  /\ paymentId = [r \in Slots |-> Null]
  /\ existingSubscriptions = [r \in Slots |-> {}]
  /\ last = "none"
  /\ userDataCache = {}
  /\ subscriptionCache = {}
  /\ proUserStatusCache = {}
  /\ reading = [k \in ReadKinds |-> NoRead]

SpecRenewal == InitRenewal /\ [][NextRecurring]_vars

(* The lifetime of a cache entry *)

\* getComprehensiveUserData of the session user minute by minute while
\* Polar events change the user's subscription
NextTtl ==
  \/ \E payload \in PolarLinkedInputs : PolarOnPayload(payload)
  \/ \E u \in SessionUsers : GetComprehensiveUserData(u)
  \/ Minute

SpecTtl == Init /\ [][NextTtl]_vars

(* Custom parameters *)

\* the notification createPayment has issued under inv1 (u1, pro,
\* recurring) as it is and with one custom parameter altered on the way:
\* the user, the plan, or the recurring flag
ShpInputs ==
  {Issued("inv1"),
   [Issued("inv1") EXCEPT !.Shp_UserId = "u2"],
   [Issued("inv1") EXCEPT !.Shp_PlanType = "ultra"],
   [Issued("inv1") EXCEPT !.Shp_IsRecurring = "0"]}

\* the route serving these notifications one at a time
NextShp == RkStepOn(1, ShpInputs)

SpecShp == Init /\ [][NextShp]_vars

(* Subscriptions of several providers *)

\* Polar events of subscription ps1 of the session user, billed by the
\* month or by the year
PolarIntervalInputs ==
  PolarLinkedInputs \cup
    {[p EXCEPT !.data.recurringInterval = "year",
               !.data.currentPeriodEnd = setFullYearPlus1(0)] :
       p \in PolarLinkedInputs}

\* the Robokassa route serving the payments issued to u1 one at a time
\* beside the Polar handler
NextProviders ==
  \/ RkStepOn(1, RecurringInputs)
  \/ \E payload \in PolarIntervalInputs : PolarOnPayload(payload)

SpecProviders == Init /\ [][NextProviders]_vars

(* Reads racing a write *)

\* Polar events of the session user while reads of that user are under way
NextRace ==
  \/ \E payload \in PolarLinkedInputs : PolarOnPayload(payload)
  \/ \E u \in SessionUsers : UserDataSelect(u)
  \/ \E u \in SessionUsers : UserDataStore(u)
  \/ \E u \in SessionUsers : DetailsSelect(u)
  \/ \E u \in SessionUsers : DetailsStore(u)

SpecRace == Init /\ [][NextRace]_vars

(* The Dodo ledger *)

\* events of payment dp1 as Dodo may deliver them one after another: the
\* customer's email is that of u1 or of u2, the amount and the subscription
\* the payment belongs to as the event states them
DodoLedgerInputs ==
  {[type |-> t[1],
    data |-> [payment_id |-> "dp1", email |-> e, status |-> t[2],
              subscription_id |-> sb, total_amount |-> o,
              created_at |-> 0, error_code |-> t[3]]] :
     t \in {<<"payment.succeeded", "succeeded", Null>>,
            <<"payment.processing", "processing", Null>>,
            <<"payment.failed", "failed", "card_declined">>},
     e \in {EmailOf(u) : u \in Users},
     sb \in {Null, "ps1"},
     o \in OutSums}

\* the Dodo handler alone
NextDodo == \E payload \in DodoLedgerInputs : DodoOnPayload(payload)

SpecDodo == Init /\ [][NextDodo]_vars

(* User linkage *)

\* Polar events of subscription ps1 whose customer carries an external id
\* (of u1, of nobody, or none) and an email (of u1, of u2, or of nobody)
PolarCustomerInputs ==
  {[type |-> t[1],
    data |-> [id |-> "ps1", externalId |-> x, email |-> e,
              productId |-> NEXT_PUBLIC_STARTER_TIER,
              amount |-> 9900, recurringInterval |-> "month", status |-> t[2],
              createdAt |-> 0, startedAt |-> 0, currentPeriodStart |-> 0,
              currentPeriodEnd |-> setMonthPlus1(0),
              cancelAtPeriodEnd |-> FALSE, canceledAt |-> t[3]]] :
     t \in {<<"subscription.active", "active", NullTime>>,
            <<"subscription.canceled", "canceled", 0>>},
     x \in {"u1", "ghost", Null},
     e \in {"u1@x", "u2@x", "ghost@x"}}

\* the handlers of Polar and of Dodo resolving the customer of each event
NextLinkage ==
  \/ \E payload \in PolarCustomerInputs : PolarOnPayload(payload)
  \/ \E payload \in DodoLedgerInputs : DodoOnPayload(payload)

SpecLinkage == Init /\ [][NextLinkage]_vars

----------------------------------------------------------------------------
(* Properties *)

\* the step in which request r returns
Returns(r) == pc[r] # "idle" /\ pc'[r] = "idle"

\* the signature of a notification is the digest of OutSum:InvId:password2,
\* letter case aside
SignatureValid(data) ==
  /\ data.SignatureValue # NullSig
  /\ toUpperCase(data.SignatureValue) =
       toUpperCase(generateSignature(<<data.OutSum, data.InvId, password2>>))

\* C1: the payment table holds at most one row for a (provider, invoice id),
\* however often the notification of that invoice is delivered.
C1_OneRowPerInvoice ==
  \A p, q \in payment :
    (p.merchantLogin = q.merchantLogin /\ p.invoiceId = q.invoiceId) => p.id = q.id

\* C2: while the recurring payments processed for a user are all deliveries
\* of the invoice that created the subscription, its currentPeriodEnd is the
\* start set by the first delivery plus one interval: a redelivery does not
\* move it.
C2_RedeliveryKeepsPeriodEnd ==
  \A s \in subscription :
    ( /\ s.recurringId # Null
      /\ \A p \in payment :
           (p.userId = s.userId /\ p.paymentType = "recurring")
             => p.invoiceId = s.recurringId )
    => s.currentPeriodEnd = periodEndOf(s.currentPeriodStart, s.recurringInterval)

\* C3: deliveries of a recurring notification processed concurrently create
\* at most one subscription row for a (userId, planType): no two active rows
\* made by handleRecurringSubscription share user and plan.
C3_OneRowFromConcurrentDeliveries ==
  \A s, t \in subscription :
    ( /\ s.recurringId # Null /\ t.recurringId # Null
      /\ s.status = "active" /\ t.status = "active"
      /\ s.userId = t.userId /\ s.planType = t.planType )
    => s.id = t.id

\* C4: each (userId, planType) has at most one subscription row with
\* status active.
C4_OneActivePerUserAndPlan ==
  \A s, t \in subscription :
    ( /\ s.status = "active" /\ t.status = "active"
      /\ s.userId = t.userId /\ s.planType = t.planType )
    => s.id = t.id

\* C5: a notification whose signature does not verify is answered 401 in the
\* step that receives it, and that step leaves the payment table, the
\* subscription table and the caches as they were.
C5_BadSignatureRejectedWithoutWrite ==
  [][ \/ last' = "401" /\ UNCHANGED <<payment, subscription, cacheVars>>
      \/ \A r \in Slots : \A data \in WebhookInputs :
           ~SignatureValid(data) => ~RkReceive(r, data) ]_vars

\* a request has been rejected for its signature
C5_Witness == last = "401"

\* C6: when a request returns and its Payment row is in the table, the
\* subscription created or renewed for that payment is there as well.
C6_PaymentRowNeverWithoutSubscription ==
  [][\A r \in Slots :
       (Returns(r) /\ \E p \in payment' : p.id = paymentId[r])
         => \E s \in subscription' :
              s.lastPaymentId = paymentId[r] \/ s.createdFromPayment = paymentId[r]]_vars

\* C7: a notification whose user hint resolves to no existing user changes
\* no payment and no subscription row, in each of the three handlers; a
\* Robokassa request gets past its first step only for an existing user.
C7_UnresolvedUserWritesNothing ==
  [][ /\ \A r \in Slots : pc[r] # "idle" => req[r].Shp_UserId \in Users
      /\ \/ UNCHANGED <<payment, subscription>>
         \/ /\ \A r \in Slots : \A data \in WebhookInputs :
                 data.Shp_UserId \notin Users => ~RkReceive(r, data)
            /\ \A payload \in DodoInputs :
                 (\A u \in Users : EmailOf(u) # payload.data.email)
                   => ~DodoOnPayload(payload)
            /\ \A payload \in PolarInputs :
                 payload.data.externalId \notin Users => ~PolarOnPayload(payload)
    ]_vars

\* a Polar event of an unknown customer has been skipped after rows of
\* existing users had been written
C7_Witness == last = "polar_skipped" /\ payment # {} /\ subscription # {}

\* C8: a validly signed notification whose user hint matches no existing
\* user is answered 200 (or 500 when the store fails), not with an error
\* status of its own.
C8_UnresolvedUserAcknowledged ==
  [][\A r \in Slots : \A data \in WebhookInputs :
       (RkReceive(r, data) /\ SignatureValid(data) /\ data.Shp_UserId \notin Users)
         => last' \in {"200", "500"}]_vars

\* no cache holds an entry of the user
CachesCleared(u) ==
  /\ CacheGet(userDataCache, u) = {}
  /\ CacheGet(subscriptionCache, u) = {}
  /\ CacheGet(proUserStatusCache, u) = {}

\* C9: a handler that has committed a payment or subscription write for a
\* user and returns success leaves no entry of that user in the
\* subscription-details cache, the pro-status cache and the user-data cache.
C9_WriteInvalidatesCaches ==
  [][\A u \in Users :
       ( \/ \E r \in Slots :
              Returns(r) /\ last' = "200" /\ req[r].Shp_UserId = u
         \/ \E payload \in DodoInputs :
              DodoOnPayload(payload) /\ last' = "dodo_upserted"
                /\ EmailOf(u) = payload.data.email
         \/ \E payload \in PolarInputs :
              PolarOnPayload(payload) /\ last' = "polar_upserted"
                /\ payload.data.externalId = u )
       => CachesCleared(u)' ]_vars

\* what the next read of each kind returns for the user is a value computed
\* from the tables as they are
ReadsAreCurrent(u) ==
  /\ \A e \in getCachedUserData(u) : e.data \in ComprehensiveData(u)
  /\ \A e \in PerfCacheGet(proUserStatusCache, u) : e.data = getRobokassaProStatus(u)
  /\ \A e \in PerfCacheGet(subscriptionCache, u) : e.data \in SubscriptionDetailsResults(u)

\* C10: when a handler has completed its write for a user, the next read
\* for that user returns a value computed from the tables including the
\* write, never an entry cached before it.
C10_ReadAfterWriteIsCurrent ==
  [][\A u \in Users : \A r \in Slots :
       (Returns(r) /\ last' = "200" /\ req[r].Shp_UserId = u)
         => ReadsAreCurrent(u)' ]_vars

\* C11: in every reachable state, what each cached read of a session user
\* returns (the unexpired entry it would hit) is a result the same read
\* computes from the tables at that moment with the cache disabled.
C11_CachedReadEqualsUncached ==
  \A u \in SessionUsers : ReadsAreCurrent(u)

\* the entitlement rule: some subscription of the user is active and not
\* ended, or expired with fewer than 3 failed payments and ended less than
\* 3 days ago
Qualifies(s, now) ==
  \/ s.status = "active" /\ s.currentPeriodEnd > now
  \/ /\ s.status = "expired"
     /\ s.failedPaymentsCount < 3
     /\ s.currentPeriodEnd > now - (3 * MinutesPerDay)

Entitled(u, now) ==
  \E s \in subscription : s.userId = u /\ Qualifies(s, now)

C12_WitnessMaxFailed ==
  \E s \in subscription :
    /\ subscription = {s}
    /\ s.status = "expired" /\ s.failedPaymentsCount = 3
    /\ s.currentPeriodEnd = clock - MinutesPerDay
    /\ \E e \in CacheGet(userDataCache, s.userId) :
         ~e.data.isProUser /\ e.expiresAt = clock + CACHE_TTL_MS

\* the candidates of the user created last
MostRecentCandidates(u, now) ==
  {s \in subscription :
     /\ s.userId = u /\ Qualifies(s, now)
     /\ \A o \in subscription :
          (o.userId = u /\ Qualifies(o, now)) => o.createdAt <= s.createdAt}

\* C13: when subscriptions of a user qualify, the one each resolver reports
\* (robokassaSubscription of getComprehensiveUserData, planType of
\* getRobokassaProStatus, subscription of getSubscriptionDetails without
\* error) is a candidate of greatest createdAt, whichever order the store
\* returns the rows in.
C13_MostRecentCandidateReported ==
  \A u \in SessionUsers :
    /\ \A e \in CacheGet(userDataCache, u) : \A x \in e.data.robokassaSubscription :
         \E s \in MostRecentCandidates(u, e.expiresAt - CACHE_TTL_MS) :
           x = SubscriptionDetailsOf(s)
    /\ \A e \in CacheGet(subscriptionCache, u) :
         e.data.errorType = "none" =>
           \A x \in e.data.subscription :
             \E s \in MostRecentCandidates(u, e.expiresAt - PerformanceCacheTtl) :
               x = SubscriptionDetailsOf(s)
    /\ \A p \in RobokassaProStatusOf(u) :
         p.isProUser =>
           \E s \in MostRecentCandidates(u, clock) : p.planType = s.planType

\* the part of C13 that getSubscriptionDetails answers for
C13_DetailsReportMostRecent ==
  \A u \in SessionUsers :
    \A e \in CacheGet(subscriptionCache, u) :
      e.data.errorType = "none" =>
        \A x \in e.data.subscription :
          \E s \in MostRecentCandidates(u, e.expiresAt - PerformanceCacheTtl) :
            x = SubscriptionDetailsOf(s)

\* request r renews subscription row s in this step
Renews(r, s) ==
  /\ pc[r] = "write_subscription" /\ pc'[r] = "idle" /\ last' = "200"
  /\ s \in subscription
  /\ \E t \in subscription' : t.id = s.id /\ t.lastPaymentId = paymentId[r]

\* C14: a recurring payment that renews an active subscription of its plan
\* sets currentPeriodEnd to the previous currentPeriodEnd plus one interval,
\* whatever the time of processing.
C14_RenewalExtendsFromPreviousEnd ==
  [][\A r \in Slots : \A s \in subscription :
       Renews(r, s)
         => \E t \in subscription' :
              /\ t.id = s.id
              /\ t.currentPeriodEnd =
                   periodEndOf(s.currentPeriodEnd, s.recurringInterval)]_vars

\* C15: the step of a one-time payment that inserts its subscription
\* inserts one row, of the paid plan (ultra included), with
\* cancelAtPeriodEnd = true, a window that starts now and is one interval
\* of the row's recurringInterval long, and no nextPaymentDate.
C15_OneTimePaymentWindow ==
  [][\A r \in Slots :
       (pc[r] = "insert_one_time" /\ pc'[r] = "link_payment")
         => /\ \E t \in subscription' \ subscription :
                 /\ t.createdFromPayment = paymentId[r]
                 /\ t.planType = processPaymentSuccess(req[r]).planType
            /\ \A t \in subscription' \ subscription :
                 /\ t.cancelAtPeriodEnd
                 /\ t.currentPeriodStart = clock
                 /\ t.currentPeriodEnd =
                      periodEndOf(t.currentPeriodStart, t.recurringInterval)
                 /\ t.nextPaymentDate = NullTime]_vars

\* a one-time payment of plan ultra processed after time has passed has
\* created its subscription and been acknowledged
C15_Witness ==
  /\ last = "200"
  /\ \E s \in subscription :
       /\ s.planType = "ultra" /\ s.cancelAtPeriodEnd
       /\ s.currentPeriodStart = CACHE_TTL_MS
       /\ \E p \in payment : p.id = s.createdFromPayment /\ p.paymentType = "one_time"

\* C16: the step that processes a failed-payment notification of a user
\* with a subscription raises the failedPaymentsCount of a subscription of
\* that user by exactly 1, and makes its status expired exactly when the
\* new count reaches 3, leaving the status as it was otherwise.
C16_FailedPaymentCounted ==
  [][\A payload \in DodoInputs : \A u \in Users :
       ( /\ payload.type = "payment.failed"
         /\ EmailOf(u) = payload.data.email
         /\ SubscriptionsOf(u) # {}
         /\ last' = "dodo_upserted"
         /\ DodoOnPayload(payload) )
       => \E s \in SubscriptionsOf(u) : \E t \in subscription' :
            /\ t.id = s.id
            /\ t.failedPaymentsCount = s.failedPaymentsCount + 1
            /\ t.status = IF t.failedPaymentsCount >= 3 THEN "expired" ELSE s.status]_vars

\* the status changes of the subscription state machine
StatusTransitions ==
  {<<"pending", "active">>, <<"active", "canceled">>,
   <<"active", "expired">>, <<"expired", "active">>}

\* C17: in every step a subscription row keeps its status or changes it
\* along pending -> active, active -> canceled, active -> expired or
\* expired -> active; a canceled row never becomes active again.
C17_StatusTransitions ==
  [][\A s \in subscription : \A t \in subscription' :
       t.id = s.id =>
         (t.status = s.status \/ <<s.status, t.status>> \in StatusTransitions)]_vars

\* the outcomes in which onPayload has caught the error of its upsert and
\* returned normally, so that the provider is acknowledged
SwallowedWriteFailures == {"dodo_error", "polar_error"}

\* C18: a handler whose payment or subscription write fails fails loudly: a
\* Robokassa request that returns from a step after the payment insert
\* without a row written answers 500, and no Dodo or Polar notification
\* ends with the error of its upsert swallowed.
C18_WriteFailureIsLoud ==
  [][ /\ \A r \in Slots :
           (pc[r] # "idle" /\ pc'[r] = "idle" /\ UNCHANGED dbVars) => last' = "500"
      /\ \A r \in Slots : \A data \in WebhookInputs :
           ( /\ verifyWebhookSignature(data) /\ UserExists(data.Shp_UserId)
             /\ RkReceive(r, data) /\ pc'[r] = "idle" ) => last' = "500"
      /\ last' \notin SwallowedWriteFailures ]_vars

\* the Robokassa part of C18
C18_RobokassaWriteFailureIsLoud ==
  [][ /\ \A r \in Slots :
           (pc[r] # "idle" /\ pc'[r] = "idle" /\ UNCHANGED dbVars) => last' = "500"
      /\ \A r \in Slots : \A data \in WebhookInputs :
           ( /\ verifyWebhookSignature(data) /\ UserExists(data.Shp_UserId)
             /\ RkReceive(r, data) /\ pc'[r] = "idle" ) => last' = "500" ]_vars

\* C19: a request whose signature has been verified and whose Payment row
\* has been written is acknowledged with 200 when it returns, also when a
\* statement of the subscription step throws.
C19_ReconciliationErrorSwallowed ==
  [][\A r \in Slots :
       (Returns(r) /\ \E p \in payment : p.id = paymentId[r]) => last' = "200"]_vars

\* C20: a notification that lacks OutSum, InvId or SignatureValue is
\* answered 400 by the step that receives it and writes nothing; the
\* answer 401 is given only to a notification that has the three fields
\* and a signature that does not match.
C20_MalformedAnswered400 ==
  [][\A r \in Slots : \A data \in WebhookInputs :
       /\ (~WebhookDataSchemaOk(data) /\ RkReceive(r, data))
            => (last' = "400" /\ UNCHANGED dbVars)
       /\ (WebhookDataSchemaOk(data) /\ SignatureValid(data) /\ RkReceive(r, data))
            => ~(pc'[r] = "idle" /\ last' = "401")]_vars

\* the part of C20 that the route keeps: a malformed notification writes
\* nothing, and a well-formed, validly signed one is never answered 401
C20_MalformedWritesNothing ==
  [][\A r \in Slots : \A data \in WebhookInputs :
       /\ (~WebhookDataSchemaOk(data) /\ RkReceive(r, data)) => UNCHANGED dbVars
       /\ (WebhookDataSchemaOk(data) /\ SignatureValid(data) /\ RkReceive(r, data))
            => ~(pc'[r] = "idle" /\ last' = "401")]_vars

\* C21: a step that leaves a Payment row of the same id in the table leaves
\* its userId, amount, currency, invoiceId and paymentType as they were;
\* only status, timestamps and error fields may differ.
C21_UpsertKeepsIdentity ==
  [][\A p \in payment : \A q \in payment' :
       q.id = p.id =>
         /\ q.userId = p.userId
         /\ q.amount = p.amount
         /\ q.currency = p.currency
         /\ q.invoiceId = p.invoiceId
         /\ q.paymentType = p.paymentType]_vars

\* the part of C21 the upsert keeps: every field but userId
C21_UpsertKeepsAmountAndType ==
  [][\A p \in payment : \A q \in payment' :
       q.id = p.id =>
         /\ q.amount = p.amount
         /\ q.currency = p.currency
         /\ q.invoiceId = p.invoiceId
         /\ q.paymentType = p.paymentType
         /\ q.createdAt = p.createdAt]_vars

\* C22: with a collision-free digest, the route rejects a notification for
\* its signature (401) exactly when the signature was not made with the
\* webhook secret for the OutSum and InvId that arrive: an unmodified
\* notification signed with the secret verifies, one whose OutSum or InvId
\* was changed after signing does not, and the verdict depends on nothing
\* but OutSum, InvId, SignatureValue and the secret.
C22_SignatureIntegrity ==
  [][ \/ pc[1] # "idle"
      \/ \A v \in SignedVerdicts :
           RkReceive(1, v.form)
             => ((pc'[1] = "idle" /\ last' = "401") <=> ~v.genuine) ]_vars

\* a notification of 990.00 has been accepted and a later one rejected
C22_Witness ==
  /\ last = "401"
  /\ \E p \in payment : p.amount = Kopecks("990.00") /\ p.invoiceId = "inv2"

\* the subscriptions of the user created last
LatestRows(u) ==
  {l \in subscription :
     l.userId = u /\ \A o \in subscription : o.userId = u => o.createdAt <= l.createdAt}

\* a result of getComprehensiveUserData computed at time now
StoredUserData(u, now) ==
  {e.data : e \in {c \in CacheGet(userDataCache, u) : c.expiresAt - CACHE_TTL_MS = now}}
    \cup (IF now = clock THEN ComprehensiveData(u) ELSE {})

\* C23: when no subscription of the user qualifies, a result of
\* getComprehensiveUserData has isProUser = false and a subscriptionStatus
\* that follows the subscription created last: canceled when its status is
\* canceled, expired when its status is expired, none when the user has no
\* subscription.
C23_StatusOfLatestSubscription ==
  \A u \in SessionUsers : \A now \in {clock, clock - CACHE_TTL_MS} :
    ~Entitled(u, now) =>
      \A d \in StoredUserData(u, now) :
        /\ ~d.isProUser
        /\ SubscriptionsOf(u) = {} => d.subscriptionStatus = "none"
        /\ \A l \in LatestRows(u) :
             /\ l.status = "canceled" => d.subscriptionStatus = "canceled"
             /\ l.status = "expired" => d.subscriptionStatus = "expired"

\* the part of C23 that getComprehensiveUserData keeps: not entitled,
\* canceled for a canceled latest subscription, none without subscription,
\* and expired for a latest subscription that is not canceled and whose
\* period has ended
C23_StatusByPeriodEnd ==
  \A u \in SessionUsers : \A now \in {clock, clock - CACHE_TTL_MS} :
    ~Entitled(u, now) =>
      \A d \in StoredUserData(u, now) :
        /\ ~d.isProUser
        /\ SubscriptionsOf(u) = {} => d.subscriptionStatus = "none"
        /\ \A l \in LatestRows(u) :
             /\ l.status = "canceled" => d.subscriptionStatus = "canceled"
             /\ (l.status # "canceled" /\ l.currentPeriodEnd < now)
                  => d.subscriptionStatus = "expired"
             /\ (l.status # "canceled" /\ l.currentPeriodEnd >= now)
                  => d.subscriptionStatus = "none"

\* no read of the user awaits the database
NoReadUnderWay(u) == \A k \in ReadKinds : reading[k].userId # u

\* C24: once the write and every read that overlapped it have completed,
\* what a read of the user is served from the details cache or the
\* user-data cache is a value computed from the tables after the write: a
\* read that began before the write leaves no stale entry behind.
C24_NoStaleEntryAfterRace ==
  \A u \in SessionUsers :
    NoReadUnderWay(u) =>
      /\ \A e \in PerfCacheGet(subscriptionCache, u) :
           e.data \in SubscriptionDetailsResults(u)
      /\ \A e \in getCachedUserData(u) : e.data \in ComprehensiveData(u)

\* the details cache alone, whose entry the write does invalidate
C24_NoStaleDetailsAfterRace ==
  \A u \in SessionUsers :
    NoReadUnderWay(u) =>
      \A e \in PerfCacheGet(subscriptionCache, u) :
        e.data \in SubscriptionDetailsResults(u)

\* C25: the step of a recurring payment that has found no active
\* subscription of the paid plan, unless its insert fails (500), inserts
\* exactly one subscription row, of the payer and
\* the plan, with status active, currentPeriodStart = now, currentPeriodEnd
\* = now + one interval, failedPaymentsCount = 0 and lastPaymentId = the id
\* of the new payment; every other row stays as it was.
C25_NewSubscriptionInserted ==
  [][\A r \in Slots :
       ( /\ pc[r] = "write_subscription"
         /\ ActiveMatches(existingSubscriptions[r],
                          processPaymentSuccess(req[r]).planType) = {}
         /\ pc'[r] # pc[r]
         /\ ~(pc'[r] = "idle" /\ last' = "500") )
       => \E t \in subscription' :
            /\ t \notin subscription
            /\ subscription' = subscription \cup {t}
            /\ t.userId = processPaymentSuccess(req[r]).userId
            /\ t.planType = processPaymentSuccess(req[r]).planType
            /\ t.status = "active"
            /\ t.currentPeriodStart = clock
            /\ t.currentPeriodEnd = periodEndOf(clock, t.recurringInterval)
            /\ t.failedPaymentsCount = 0
            /\ t.lastPaymentId = paymentId[r]]_vars

\* a recurring payment of the yearly plan processed after time has passed
\* has created its subscription
C25_Witness ==
  \E s \in subscription :
    /\ s.planType = "ultra" /\ s.recurringInterval = "yearly"
    /\ s.recurringId = "inv2"
    /\ s.currentPeriodStart = CACHE_TTL_MS
    /\ s.currentPeriodEnd = setFullYearPlus1(CACHE_TTL_MS)

\* C26: an event of a kind the handler does not process (Dodo delivering a
\* subscription event, Polar delivering an order event) returns normally
\* and leaves table payment, table subscription and the three caches as
\* they were.
C26_UnhandledKindIsNoOp ==
  [][ /\ \A p \in DodoInputs :
           (p.type = "subscription.active" /\ DodoOnPayload(p))
             => (last' = "dodo_ignored" /\ UNCHANGED <<dbVars, cacheVars>>)
      /\ \A p \in PolarInputs :
           (p.type = "order.paid" /\ PolarOnPayload(p))
             => (last' = "polar_ignored" /\ UNCHANGED <<dbVars, cacheVars>>) ]_vars

\* an event of another kind has been acknowledged while the tables hold
\* rows and the caches hold entries
C26_Witness ==
  /\ last = "dodo_ignored"
  /\ payment # {} /\ subscription # {}
  /\ userDataCache # {} /\ subscriptionCache # {} /\ proUserStatusCache # {}

C26_WitnessPolar ==
  /\ last = "polar_ignored"
  /\ payment # {} /\ subscription # {}
  /\ userDataCache # {} /\ subscriptionCache # {} /\ proUserStatusCache # {}
\* C27: a Polar event whose external id names no user but whose customer
\* email belongs to a user is not skipped: it is processed for the user of
\* that email.
C27_LinkageFallsBackToEmail ==
  [][\A p \in PolarCustomerInputs :
       ( /\ PolarOnPayload(p)
         /\ (p.data.externalId = Null \/ ~UserExists(p.data.externalId))
         /\ UserByEmail(p.data.email) # {} )
       => /\ last' \in {"polar_upserted", "polar_error", "polar_lookup_error"}
          /\ last' = "polar_upserted"
               => \E t \in subscription' :
                    t.id = p.data.id /\ t.userId \in UserByEmail(p.data.email)]_vars

\* when the external id names a user the event is processed for that user,
\* whatever the email
C27_DirectIdWins ==
  [][\A p \in PolarCustomerInputs :
       ( /\ PolarOnPayload(p)
         /\ p.data.externalId # Null /\ UserExists(p.data.externalId)
         /\ last' = "polar_upserted" )
       => \E t \in subscription' :
            t.id = p.data.id /\ t.userId = p.data.externalId]_vars

\* an event naming u1 by id and u2 by email has been stored for u1
C27_WitnessDirectId ==
  /\ last = "polar_upserted"
  /\ \E t \in subscription : t.id = "ps1" /\ t.userId = "u1"
\* C28: the step of a recurring payment that renews an active subscription
\* of its plan sets on that row failedPaymentsCount to 0, lastPaymentId to
\* the payment just inserted and nextPaymentDate to the new
\* currentPeriodEnd; the row's other fields (status, planType, amount,
\* recurringInterval, startedAt, currentPeriodStart among them) and every
\* other row stay as they were.
C28_RenewalFrame ==
  [][\A r \in Slots :
       (pc[r] = "write_subscription" /\ pc'[r] = "idle" /\ last' = "200")
       => \E s \in subscription :
            /\ s.id \in {m.id : m \in ActiveMatches(existingSubscriptions[r],
                                       processPaymentSuccess(req[r]).planType)}
            /\ \E t \in subscription' :
                 /\ t.id = s.id
                 /\ t.failedPaymentsCount = 0
                 /\ t.lastPaymentId = paymentId[r]
                 /\ t.nextPaymentDate = t.currentPeriodEnd
                 /\ t = [s EXCEPT !.currentPeriodEnd = t.currentPeriodEnd,
                                  !.lastPaymentId = t.lastPaymentId,
                                  !.nextPaymentDate = t.nextPaymentDate,
                                  !.failedPaymentsCount = t.failedPaymentsCount]
                 /\ subscription' = (subscription \ {s}) \cup {t}]_vars

\* the stored subscription has been renewed after a cache lifetime while
\* the table holds another row: its failed payments are forgotten, its
\* period start is the old one
C28_Witness ==
  /\ \E s \in subscription :
       /\ s.id = "s1" /\ s.status = "active"
       /\ s.failedPaymentsCount = 0
       /\ s.lastPaymentId # Null
       /\ s.currentPeriodStart = 0
       /\ s.currentPeriodEnd = setMonthPlus1(CACHE_TTL_MS)
       /\ s.nextPaymentDate = s.currentPeriodEnd
  /\ \E o \in subscription : o.id # "s1"
C29_WitnessExpired ==
  \E e \in userDataCache : e.key = "u1" /\ clock = e.expiresAt
\* C30: a notification that carries the signature of an issued invoice but
\* whose Shp_UserId, Shp_PlanType or Shp_IsRecurring differs from what
\* createPayment issued for that invoice is answered 401.
C30_AlteredShpRejected ==
  [][ \/ pc[1] # "idle"
      \/ \A d \in ShpInputs :
           (RkReceive(1, d) /\ d # Issued(d.InvId))
             => (pc'[1] = "idle" /\ last' = "401") ]_vars

\* what is stored belongs to the user and the plan the invoice was issued
\* for
C30_EntitlementFollowsInvoice ==
  /\ \A p \in payment : p.userId = Issued(p.invoiceId).Shp_UserId
  /\ \A t \in subscription : t.userId = "u1" /\ t.planType = "pro"
\* C31: a value stored in the pro-status cache by isUserProCached or
\* getSubscriptionDetails is the entitlement the tables give at that time;
\* in particular false is never stored for a user who has an entitling
\* subscription because the select failed.
C31_ReadFailureCachesNothing ==
  [][\A e \in proUserStatusCache' \ proUserStatusCache :
       e.data = getRobokassaProStatus(e.key)]_vars
\* C32: at the return of 200 for a notification of user u the tables
\* entitle u: getRobokassaProStatus(u), computed then without a failing
\* select, finds an entitling subscription.
C32_AcknowledgedPaymentEntitles ==
  [][\A r \in Slots : \A u \in Users :
       ( /\ pc[r] # "idle" /\ pc'[r] = "idle" /\ last' = "200"
         /\ u = req[r].Shp_UserId )
       => getRobokassaProStatus(u)']_vars
\* C33: a renewal leaves the currentPeriodEnd of the subscription it
\* extends no earlier than it was, whichever handler created the row.
C33_RenewalNeverShortens ==
  [][\A r \in Slots : \A s \in subscription :
       Renews(r, s)
         => \A t \in subscription' :
              t.id = s.id => t.currentPeriodEnd >= s.currentPeriodEnd]_vars
\* C34: a payment row whose status is success keeps that status in every
\* step, whatever notification of the same payment is processed later.
C34_SuccessIsFinal ==
  [][\A p \in payment : \A q \in payment' :
       (q.id = p.id /\ p.status = "success") => q.status = "success"]_vars

\* C35: every payment row with status success carries a time of payment.
C35_SuccessHasPaidAt ==
  \A p \in payment : p.status = "success" => p.paidAt # NullTime
\* C36: at the return of 200 the payment row of the request names, as its
\* subscriptionId, the subscription whose lastPaymentId is that payment.
C36_PaymentLinkedToSubscription ==
  [][\A r \in Slots :
       (pc[r] # "idle" /\ pc'[r] = "idle" /\ last' = "200")
       => \E p \in payment' : \E s \in subscription' :
            /\ p.id = paymentId[r]
            /\ s.lastPaymentId = p.id
            /\ p.subscriptionId = s.id]_vars

\* a request that has inserted a subscription, new recurring or one-time,
\* returns 200 with its payment row naming the subscription it inserted
C36_InsertedSubscriptionLinked ==
  [][\A r \in Slots :
       (pc[r] = "link_payment" /\ pc'[r] = "idle" /\ last' = "200")
       => \E p \in payment' : \E s \in subscription' :
            /\ p.id = paymentId[r]
            /\ s.createdFromPayment = p.id
            /\ p.subscriptionId = s.id]_vars
\* C37: whenever the details cache and the pro-status cache both hold a
\* live entry of a user, the pro status is true exactly when the cached
\* details are those of an entitling subscription (hasSubscription without
\* error).
C37_CachesAgree ==
  \A u \in SessionUsers :
    \A d \in PerfCacheGet(subscriptionCache, u) :
      \A q \in PerfCacheGet(proUserStatusCache, u) :
        q.data = (d.data.hasSubscription /\ d.data.errorType = "none")
\* C38: computed from the same rows at the same time, without a failing
\* select, the three resolvers agree: isUserSubscribed() (the isProUser of
\* getRobokassaProStatus), the isProUser of getComprehensiveUserData() and
\* "hasSubscription without error" of getSubscriptionDetails() have one
\* value; so have the results the latter two have stored at this time.
C38_ResolversAgree ==
  \A u \in SessionUsers :
    /\ \A c \in ComprehensiveData(u) :
         c.isProUser = getRobokassaProStatus(u)
    /\ \A d \in SubscriptionDetailsResults(u) :
         (d.hasSubscription /\ d.errorType = "none") = getRobokassaProStatus(u)
    /\ \A e \in CacheGet(userDataCache, u) :
         \A f \in CacheGet(subscriptionCache, u) :
           (e.expiresAt = clock + CACHE_TTL_MS /\ f.expiresAt = clock + PerformanceCacheTtl)
             => /\ e.data.isProUser = (f.data.hasSubscription /\ f.data.errorType = "none")
                /\ e.data.isProUser = getRobokassaProStatus(u)

\* the three resolvers have answered at one time for a user whose only
\* entitling subscription is an expired one within the grace period
C38_Witness ==
  /\ \E s \in subscription :
       s.userId = "u1" /\ s.status = "expired" /\ IsEntitling(s, clock)
  /\ \A s \in subscription : s.status = "active" => ~IsEntitling(s, clock)
  /\ \E e \in CacheGet(userDataCache, "u1") :
       e.expiresAt = clock + CACHE_TTL_MS /\ e.data.isProUser
  /\ \E f \in CacheGet(subscriptionCache, "u1") :
       /\ f.expiresAt = clock + PerformanceCacheTtl
       /\ f.data.hasSubscription /\ f.data.errorType = "none"
  /\ \E q \in CacheGet(proUserStatusCache, "u1") :
       q.expiresAt = clock + PerformanceCacheTtl /\ q.data

\* the three resolvers have answered at one time for a user none of whose
\* subscriptions entitles
C38_WitnessNotEntitled ==
  /\ SubscriptionsOf("u1") # {}
  /\ ~getRobokassaProStatus("u1")
  /\ \E e \in CacheGet(userDataCache, "u1") :
       e.expiresAt = clock + CACHE_TTL_MS /\ ~e.data.isProUser
  /\ \E f \in CacheGet(subscriptionCache, "u1") :
       /\ f.expiresAt = clock + PerformanceCacheTtl
       /\ f.data.hasSubscription /\ f.data.errorType # "none"
====
